---- MODULE Spec2Model ----
(***************************************************************************)
(* A model of tus_client (src/src/lib.rs, src/src/http.rs,                 *)
(* src/src/headers.rs): the Client and its operations get_info,            *)
(* upload_with_chunk_size, create_with_metadata, delete and                *)
(* get_server_info, run against an HttpHandler whose answers are drawn     *)
(* from small sets, and against a local file read through a BufReader.     *)
(*                                                                         *)
(* Text is modelled as a sequence of one-character strings wherever the    *)
(* code converts it (integers in headers); the local file holds the bytes  *)
(* 1, 2, ..., file_len, so that a byte's value tells its position.  The    *)
(* file is assumed to exist and to be readable (File::open, metadata and   *)
(* seek succeed).                                                          *)
(***************************************************************************)
EXTENDS Integers, Sequences, FiniteSets, TLC

VARIABLES
    use_method_override, \* Client.use_method_override
    handler,             \* Client.http_handler: which handler the client was given
    file_len,            \* length of the local file
    stored,              \* the bytes the server holds for the resource
    calls,               \* number of operations started so far
    prev,                \* summary of the previous operation: <<op, ok>>
    op,                  \* the running (or last) operation
    pc,                  \* where it stands: idle, the exchange in flight, done
    chunk_size,          \* upload_with_chunk_size: chunk_size
    inspected,           \* upload_with_chunk_size: info, less the metadata it never reads
    progress,            \* upload_with_chunk_size: progress
    reader,              \* upload_with_chunk_size: reader (BufReader over the file)
    request,             \* the request handed to the handler, not yet answered
    response,            \* the handler's latest answer
    log,                 \* the PATCH exchanges of the running upload call
    sent,                \* number of requests handed to the handler in this call
    result,              \* what the last finished operation returned
    uploads              \* the upload calls that run side by side (SpecConcurrent)

vars == <<use_method_override, handler, file_len, stored, calls, prev, op, pc, chunk_size,
          inspected, progress, reader, request, response, log, sent, result, uploads>>

----------------------------------------------------------------------------
(* Bounds of the model *)

MaxLen == 4
MaxChunk == 4
MaxCalls == 2
\* The capacity of std's BufReader (8 KiB by default), scaled down.
BufCapacity == 3

----------------------------------------------------------------------------
(* Option and Result values *)

None == [some |-> FALSE]
Some(v) == [some |-> TRUE, val |-> v]

Ok(v) == [ok |-> TRUE, val |-> v]
Err(e) == [ok |-> FALSE, err |-> e]

Unit == "()"

Min(a, b) == IF a <= b THEN a ELSE b

----------------------------------------------------------------------------
(* enum Error: every value has the same shape, unused fields are blank *)

UnexpectedStatusCode(code) == [kind |-> "UnexpectedStatusCode", code |-> code, header |-> ""]
NotFoundError == [kind |-> "NotFoundError", code |-> 0, header |-> ""]
MissingHeader(name) == [kind |-> "MissingHeader", code |-> 0, header |-> name]
ParsingError == [kind |-> "ParsingError", code |-> 0, header |-> ""]
UnequalSizeError == [kind |-> "UnequalSizeError", code |-> 0, header |-> ""]
FileReadError == [kind |-> "FileReadError", code |-> 0, header |-> ""]
WrongUploadOffsetError == [kind |-> "WrongUploadOffsetError", code |-> 0, header |-> ""]
FileTooLarge == [kind |-> "FileTooLarge", code |-> 0, header |-> ""]
HttpHandlerError == [kind |-> "HttpHandlerError", code |-> 0, header |-> ""]

----------------------------------------------------------------------------
(* Integers as text: usize::to_string and str::parse::<usize> *)

Digits == <<"0", "1", "2", "3", "4", "5", "6", "7", "8", "9">>

IsDigit(ch) == \E d \in 1..10 : Digits[d] = ch

DigitValue(ch) == (CHOOSE d \in 1..10 : Digits[d] = ch) - 1

RECURSIVE to_string(_)
to_string(n) ==
    IF n < 10 THEN <<Digits[n + 1]>>
    ELSE to_string(n \div 10) \o <<Digits[(n % 10) + 1]>>

RECURSIVE DigitsValue(_)
DigitsValue(s) ==
    IF s = <<>> THEN 0
    ELSE 10 * DigitsValue(SubSeq(s, 1, Len(s) - 1)) + DigitValue(s[Len(s)])

\* usize::from_str: an optional leading "+", then one or more decimal digits.
parse_usize(s) ==
    LET body == IF s # <<>> /\ s[1] = "+" THEN Tail(s) ELSE s
    IN  IF body # <<>> /\ \A i \in 1..Len(body) : IsDigit(body[i])
        THEN Ok(DigitsValue(body))
        ELSE Err(ParsingError)

----------------------------------------------------------------------------
(* Headers: HashMap<String, String> *)

NoHeaders == <<>>

insert(headers, key, value) == (key :> value) @@ headers

\* str::to_lowercase on the header names the handler may use.
to_lowercase(k) ==
    CASE k = "Upload-Offset" -> "upload-offset"
      [] k = "Upload-Length" -> "upload-length"
      [] k = "Location" -> "location"
      [] OTHER -> k

get_by_key(headers, key) ==
    IF \E k \in DOMAIN headers : to_lowercase(k) = key
    THEN Some(headers[CHOOSE k \in DOMAIN headers : to_lowercase(k) = key])
    ELSE None

default_headers == insert(NoHeaders, "tus-resumable", "1.0.0")

create_upload_headers(p) ==
    insert(insert(default_headers, "content-type", "application/offset+octet-stream"),
           "upload-offset", to_string(p))

\* Display for HttpMethod writes the variant's Debug name.
method_to_string(method) ==
    CASE method = "Head" -> <<"H", "e", "a", "d">>
      [] method = "Patch" -> <<"P", "a", "t", "c", "h">>
      [] method = "Options" -> <<"O", "p", "t", "i", "o", "n", "s">>
      [] method = "Post" -> <<"P", "o", "s", "t">>
      [] method = "Delete" -> <<"D", "e", "l", "e", "t", "e">>

\* create_request that reads the method for the header after it was replaced.
create_request_header_after_replace(method, body, headers) ==
    [method  |-> IF use_method_override THEN "Post" ELSE method,
     url     |-> "/something",
     body    |-> body,
     headers |-> IF use_method_override
                 THEN insert(headers, "x-http-method-override", method_to_string("Post"))
                 ELSE headers]

create_request(method, body, headers) ==
    [method  |-> IF use_method_override THEN "Post" ELSE method,
     url     |-> "/something",
     body    |-> body,
     headers |-> IF use_method_override
                 THEN insert(headers, "x-http-method-override", method_to_string(method))
                 ELSE headers]

NoRequest == [method |-> "none", url |-> "", body |-> None, headers |-> NoHeaders]
NoResponse == [ok |-> FALSE, err |-> [kind |-> "none", code |-> 0, header |-> ""]]
NoResult == NoResponse

----------------------------------------------------------------------------
(* base64::decode, on text whose length is a multiple of four *)

B64 == <<"A", "B", "C", "D", "E", "F", "G", "H", "I", "J", "K", "L", "M",
         "N", "O", "P", "Q", "R", "S", "T", "U", "V", "W", "X", "Y", "Z",
         "a", "b", "c", "d", "e", "f", "g", "h", "i", "j", "k", "l", "m",
         "n", "o", "p", "q", "r", "s", "t", "u", "v", "w", "x", "y", "z",
         "0", "1", "2", "3", "4", "5", "6", "7", "8", "9", "+", "/">>

IsB64(ch) == \E i \in 1..64 : B64[i] = ch

B64Value(ch) == (CHOOSE i \in 1..64 : B64[i] = ch) - 1

\* Four symbols carry three bytes.
DecodeQuad(q) ==
    LET v == B64Value(q[1]) * 262144 + B64Value(q[2]) * 4096
             + B64Value(q[3]) * 64 + B64Value(q[4])
    IN  <<v \div 65536, (v \div 256) % 256, v % 256>>

RECURSIVE DecodeQuads(_)
DecodeQuads(s) ==
    IF s = <<>> THEN <<>>
    ELSE DecodeQuad(SubSeq(s, 1, 4)) \o DecodeQuads(SubSeq(s, 5, Len(s)))

\* The last group when it ends in one or two "=": two bytes or one, and the
\* bits that carry no data must be zero.
DecodeTail(q, pad) ==
    IF pad = 1
    THEN LET v == B64Value(q[1]) * 4096 + B64Value(q[2]) * 64 + B64Value(q[3])
         IN  IF v % 4 = 0 THEN Some(<<v \div 1024, (v \div 4) % 256>>) ELSE None
    ELSE LET v == B64Value(q[1]) * 64 + B64Value(q[2])
         IN  IF v % 16 = 0 THEN Some(<<v \div 16>>) ELSE None

base64_decode(s) ==
    LET n == Len(s)
        pad == IF n = 0 \/ s[n] # "=" THEN 0 ELSE IF s[n - 1] = "=" THEN 2 ELSE 1
    IN  IF n % 4 # 0 \/ \E i \in 1..(n - pad) : ~IsB64(s[i]) THEN None
        ELSE IF pad = 0 THEN Some(DecodeQuads(s))
        ELSE LET last == DecodeTail(SubSeq(s, n - 3, n), pad)
             IN  IF last.some
                 THEN Some(DecodeQuads(SubSeq(s, 1, n - 4)) \o last.val)
                 ELSE None

----------------------------------------------------------------------------
(* String::from_utf8: whether the bytes are well-formed UTF-8 *)

IsCont(b) == 128 <= b /\ b <= 191

RECURSIVE valid_utf8(_)
valid_utf8(b) ==
    LET n == Len(b)
        Rest(k) == SubSeq(b, k + 1, n)
        Conts(k) == n >= k /\ \A i \in 2..k : IsCont(b[i])
        Second(lo, hi) == n >= 2 /\ lo <= b[2] /\ b[2] <= hi
    IN  IF n = 0 THEN TRUE
        ELSE IF b[1] < 128 THEN valid_utf8(Rest(1))
        ELSE IF 194 <= b[1] /\ b[1] <= 223 THEN Conts(2) /\ valid_utf8(Rest(2))
        ELSE IF b[1] = 224 THEN Second(160, 191) /\ Conts(3) /\ valid_utf8(Rest(3))
        ELSE IF b[1] = 237 THEN Second(128, 159) /\ Conts(3) /\ valid_utf8(Rest(3))
        ELSE IF 225 <= b[1] /\ b[1] <= 239 THEN Conts(3) /\ valid_utf8(Rest(3))
        ELSE IF b[1] = 240 THEN Second(144, 191) /\ Conts(4) /\ valid_utf8(Rest(4))
        ELSE IF b[1] = 244 THEN Second(128, 143) /\ Conts(4) /\ valid_utf8(Rest(4))
        ELSE IF 241 <= b[1] /\ b[1] <= 243 THEN Conts(4) /\ valid_utf8(Rest(4))
        ELSE FALSE

----------------------------------------------------------------------------
(* str::split and str::splitn(2, _) on text given as its bytes; the         *)
(* separators ';' (59) and ':' (58) are single bytes that occur in no       *)
(* multi-byte character.                                                    *)

Semicolon == 59
Colon == 58

\* The index of the first sep in s, or 0.
FirstIndex(s, sep) ==
    IF \E i \in 1..Len(s) : s[i] = sep
    THEN CHOOSE i \in 1..Len(s) : s[i] = sep /\ \A j \in 1..(i - 1) : s[j] # sep
    ELSE 0

RECURSIVE split(_, _)
split(s, sep) ==
    LET i == FirstIndex(s, sep)
    IN  IF i = 0 THEN <<s>>
        ELSE <<SubSeq(s, 1, i - 1)>> \o split(SubSeq(s, i + 1, Len(s)), sep)

\* splitn(2, ':'): the key, then parts.next().unwrap_or_default().
KeyOf(key_val) ==
    LET i == FirstIndex(key_val, Colon)
    IN  IF i = 0 THEN key_val ELSE SubSeq(key_val, 1, i - 1)

\* ValueOf with split(':') in place of splitn(2, ':'): the value ends at the
\* next ':'.
ValueOf_until_next_colon(key_val) ==
    LET i == FirstIndex(key_val, Colon)
        rest == SubSeq(key_val, i + 1, Len(key_val))
        j == FirstIndex(rest, Colon)
    IN  IF i = 0 THEN <<>>
        ELSE IF j = 0 THEN rest
        ELSE SubSeq(rest, 1, j - 1)

ValueOf(key_val) ==
    LET i == FirstIndex(key_val, Colon)
    IN  IF i = 0 THEN <<>> ELSE SubSeq(key_val, i + 1, Len(key_val))

\* The fold over the pieces: a later piece replaces an earlier one's key.
RECURSIVE fold_metadata(_, _)
fold_metadata(acc, pieces) ==
    IF pieces = <<>> THEN acc
    ELSE fold_metadata(insert(acc, KeyOf(pieces[1]), ValueOf(pieces[1])), Tail(pieces))

----------------------------------------------------------------------------
(* The local file and the BufReader over it *)

\* The file's content: byte i of the file (counting from 1) has value i.
Source == [i \in 1..file_len |-> i]

\* File::read at cursor `at` into a buffer of n bytes.
FileRead(at, n) ==
    IF at >= file_len THEN <<>> ELSE SubSeq(Source, at + 1, Min(at + n, file_len))

\* BufSeek without the seek: the file's cursor stays at the start.
BufSeek_unmoved(p) == [inner |-> 0, buf |-> <<>>]

\* BufReader::new followed by seek(SeekFrom::Start(p)): the buffer is empty
\* and the file's cursor is at p.
BufSeek(p) == [inner |-> p, buf |-> <<>>]

\* BufReader::read into a buffer of n bytes: with nothing buffered and
\* n >= capacity the file is read directly; otherwise an empty buffer is
\* refilled from the file first, and the bytes come out of the buffer: at most
\* n, and no more than the buffer holds.
BufRead(rd, n) ==
    IF rd.buf = <<>> /\ n >= BufCapacity
    THEN LET data == FileRead(rd.inner, n)
         IN  [data |-> data, reader |-> [inner |-> rd.inner + Len(data), buf |-> <<>>]]
    ELSE LET fresh  == IF rd.buf = <<>> THEN FileRead(rd.inner, BufCapacity) ELSE <<>>
             filled == IF rd.buf = <<>> THEN fresh ELSE rd.buf
             k      == Min(n, Len(filled))
         IN  [data   |-> SubSeq(filled, 1, k),
              reader |-> [inner |-> rd.inner + Len(fresh),
                          buf   |-> SubSeq(filled, k + 1, Len(filled))]]

----------------------------------------------------------------------------
(* Client::get_info, from the handler's answer on *)

\* A panic (an unwrap of None or of Err): the call returns nothing.
Panic == [ok |-> FALSE, err |-> [kind |-> "panic", code |-> 0, header |-> ""]]

IsPanic(r) == ~r.ok /\ r.err.kind = "panic"
IsErr(r) == ~r.ok /\ r.err.kind \notin {"panic", "none"}

\* status_code.to_string().starts_with('4')
starts_with_4(status_code) == to_string(status_code)[1] = "4"

\* The metadata of the answer: None without the header or when it is not
\* base64; Panic when the decoded bytes are not UTF-8 (from_utf8(..).unwrap()).
decode_metadata(headers) ==
    LET data == get_by_key(headers, "upload-metadata")
        decoded == IF data.some THEN base64_decode(data.val) ELSE None
    IN  IF ~decoded.some THEN Ok(None)
        ELSE IF ~valid_utf8(decoded.val) THEN Panic
        ELSE Ok(Some(fold_metadata(NoHeaders, split(decoded.val, Semicolon))))

get_info(hr) ==
    IF ~hr.ok THEN Err(hr.err)
    ELSE LET resp == hr.val
             bytes_uploaded == get_by_key(resp.headers, "upload-offset")
             length == get_by_key(resp.headers, "upload-length")
             total_size == IF length.some /\ parse_usize(length.val).ok
                           THEN Some(parse_usize(length.val).val) ELSE None
             metadata == decode_metadata(resp.headers)
         IN  IF IsPanic(metadata) THEN Panic
             ELSE IF starts_with_4(resp.status_code) \/ ~bytes_uploaded.some
             THEN Err(NotFoundError)
             ELSE IF ~parse_usize(bytes_uploaded.val).ok THEN Err(ParsingError)
             ELSE Ok([bytes_uploaded |-> parse_usize(bytes_uploaded.val).val,
                      total_size     |-> total_size,
                      metadata       |-> metadata.val])

----------------------------------------------------------------------------
(* Client::upload_with_chunk_size *)

\* before_loop without the comparison of total_size to the file's length.
before_loop_unchecked(r) ==
    IF ~r.ok THEN [return |-> TRUE, result |-> r, seek |-> 0]
    ELSE [return |-> FALSE, result |-> r, seek |-> r.val.bytes_uploaded]

\* before_loop that goes on from offset 0 when get_info failed.
before_loop_ignoring_error(r) ==
    IF ~r.ok THEN [return |-> FALSE, result |-> r, seek |-> 0]
    ELSE IF r.val.total_size.some /\ file_len # r.val.total_size.val
    THEN [return |-> TRUE, result |-> Err(UnequalSizeError), seek |-> 0]
    ELSE [return |-> FALSE, result |-> r, seek |-> r.val.bytes_uploaded]

\* Lines 145-159: what follows get_info's result r, before the loop: the
\* result to return, or the offset to seek to.
before_loop(r) ==
    IF ~r.ok THEN [return |-> TRUE, result |-> r, seek |-> 0]
    ELSE IF r.val.total_size.some /\ file_len # r.val.total_size.val
    THEN [return |-> TRUE, result |-> Err(UnequalSizeError), seek |-> 0]
    ELSE [return |-> FALSE, result |-> r, seek |-> r.val.bytes_uploaded]

\* transport_error that goes round the loop again instead of returning.
transport_error_retry(e) == [return |-> FALSE, result |-> Ok(Unit), progress |-> progress]

\* Line 174: the `?` on handle_request's result.
transport_error(e) == [return |-> TRUE, result |-> Err(e), progress |-> 0]

\* status_error with the test for 204 first: 409 and 404 lose their own errors.
status_error_204_first(status_code) ==
    IF status_code # 204 THEN Some(UnexpectedStatusCode(status_code))
    ELSE None

\* Lines 176-186: the error a PATCH answer's status maps to, if any.
status_error(status_code) ==
    IF status_code = 409 THEN Some(WrongUploadOffsetError)
    ELSE IF status_code = 404 THEN Some(NotFoundError)
    ELSE IF status_code # 204 THEN Some(UnexpectedStatusCode(status_code))
    ELSE None

\* after_patch that takes the first accepted chunk for the end of the upload.
after_patch_first_ack(hr) ==
    IF ~hr.ok THEN transport_error(hr.err)
    ELSE LET resp == hr.val
             upload_offset == get_by_key(resp.headers, "upload-offset")
             Return(e) == [return |-> TRUE, result |-> Err(e), progress |-> 0]
         IN  IF status_error(resp.status_code).some
             THEN Return(status_error(resp.status_code).val)
             ELSE IF ~upload_offset.some THEN Return(MissingHeader("upload-offset"))
             ELSE IF ~parse_usize(upload_offset.val).ok THEN Return(ParsingError)
             ELSE [return   |-> TRUE,
                   result   |-> Ok(Unit),
                   progress |-> parse_usize(upload_offset.val).val]

\* after_patch that counts the bytes it sent instead of reading the server's
\* offset.
after_patch_local_progress(hr) ==
    IF ~hr.ok THEN transport_error(hr.err)
    ELSE LET resp == hr.val
             upload_offset == get_by_key(resp.headers, "upload-offset")
             counted == progress + Len(log[Len(log)].body)
             Return(e) == [return |-> TRUE, result |-> Err(e), progress |-> 0]
         IN  IF status_error(resp.status_code).some
             THEN Return(status_error(resp.status_code).val)
             ELSE IF ~upload_offset.some THEN Return(MissingHeader("upload-offset"))
             ELSE IF ~parse_usize(upload_offset.val).ok THEN Return(ParsingError)
             ELSE [return   |-> counted >= file_len,
                   result   |-> Ok(Unit),
                   progress |-> counted]

\* Lines 174-197: what follows the handler's answer to a PATCH: the result
\* to return, or the new progress to go on with.
after_patch(hr) ==
    IF ~hr.ok THEN transport_error(hr.err)
    ELSE LET resp == hr.val
             upload_offset == get_by_key(resp.headers, "upload-offset")
             Return(e) == [return |-> TRUE, result |-> Err(e), progress |-> 0]
         IN  IF status_error(resp.status_code).some
             THEN Return(status_error(resp.status_code).val)
             ELSE IF ~upload_offset.some THEN Return(MissingHeader("upload-offset"))
             ELSE IF ~parse_usize(upload_offset.val).ok THEN Return(ParsingError)
             ELSE [return   |-> parse_usize(upload_offset.val).val >= file_len,
                   result   |-> Ok(Unit),
                   progress |-> parse_usize(upload_offset.val).val]

----------------------------------------------------------------------------
(* Client::create_with_metadata and Client::delete *)

\* base64::encode: three bytes become four symbols, a shorter last group is
\* padded with "=".
RECURSIVE base64_encode(_)
base64_encode(b) ==
    IF b = <<>> THEN <<>>
    ELSE IF Len(b) = 1
    THEN <<B64[(b[1] \div 4) + 1], B64[(b[1] % 4) * 16 + 1], "=", "=">>
    ELSE IF Len(b) = 2
    THEN <<B64[(b[1] \div 4) + 1], B64[(b[1] % 4) * 16 + (b[2] \div 16) + 1],
           B64[(b[2] % 16) * 4 + 1], "=">>
    ELSE <<B64[(b[1] \div 4) + 1], B64[(b[1] % 4) * 16 + (b[2] \div 16) + 1],
           B64[(b[2] % 16) * 4 + (b[3] \div 64) + 1], B64[(b[3] % 64) + 1]>>
         \o base64_encode(SubSeq(b, 4, Len(b)))

\* The upload-metadata value of a create request: "key base64(value)" for
\* each pair, in the order the map yields them, joined by ",".
RECURSIVE encode_metadata(_)
encode_metadata(pairs) ==
    IF pairs = <<>> THEN <<>>
    ELSE pairs[1].key \o <<" ">> \o base64_encode(pairs[1].value)
         \o (IF Len(pairs) > 1 THEN <<",">> \o encode_metadata(Tail(pairs)) ELSE <<>>)

create_headers(metadata) ==
    LET headers == insert(default_headers, "upload-length", to_string(file_len))
    IN  IF metadata # <<>>
        THEN insert(headers, "upload-metadata", encode_metadata(metadata))
        ELSE headers

\* create_with_metadata with the test for 201 before the test for 413.
create_with_metadata_201_first(hr) ==
    IF ~hr.ok THEN Err(hr.err)
    ELSE LET resp == hr.val
             location == get_by_key(resp.headers, "location")
         IN  IF resp.status_code # 201
             THEN Err(UnexpectedStatusCode(resp.status_code))
             ELSE IF ~location.some THEN Err(MissingHeader("location"))
             ELSE Ok(location.val)

create_with_metadata(hr) ==
    IF ~hr.ok THEN Err(hr.err)
    ELSE LET resp == hr.val
             location == get_by_key(resp.headers, "location")
         IN  IF resp.status_code = 413 THEN Err(FileTooLarge)
             ELSE IF resp.status_code # 201
             THEN Err(UnexpectedStatusCode(resp.status_code))
             ELSE IF ~location.some THEN Err(MissingHeader("location"))
             ELSE Ok(location.val)

\* delete that takes 200 for success as well.
delete_any_success(hr) ==
    IF ~hr.ok THEN Err(hr.err)
    ELSE IF hr.val.status_code \notin {200, 204}
    THEN Err(UnexpectedStatusCode(hr.val.status_code))
    ELSE Ok(Unit)

delete(hr) ==
    IF ~hr.ok THEN Err(hr.err)
    ELSE IF hr.val.status_code # 204
    THEN Err(UnexpectedStatusCode(hr.val.status_code))
    ELSE Ok(Unit)

----------------------------------------------------------------------------
(* Client::get_server_info and TusExtension::from_str *)

IsSpace(ch) == ch = " "

\* str::trim
RECURSIVE trim(_)
trim(s) ==
    IF s = <<>> THEN s
    ELSE IF IsSpace(s[1]) THEN trim(Tail(s))
    ELSE IF IsSpace(s[Len(s)]) THEN trim(SubSeq(s, 1, Len(s) - 1))
    ELSE s

\* str::to_lowercase on text: A..Z become a..z.
lower_char(ch) ==
    IF \E i \in 1..26 : B64[i] = ch
    THEN B64[(CHOOSE i \in 1..26 : B64[i] = ch) + 26]
    ELSE ch

lowercase(s) == [i \in 1..Len(s) |-> lower_char(s[i])]

TextCreation == <<"c", "r", "e", "a", "t", "i", "o", "n">>
TextExpiration == <<"e", "x", "p", "i", "r", "a", "t", "i", "o", "n">>
TextChecksum == <<"c", "h", "e", "c", "k", "s", "u", "m">>
TextTermination == <<"t", "e", "r", "m", "i", "n", "a", "t", "i", "o", "n">>
TextConcatenation == <<"c", "o", "n", "c", "a", "t", "e", "n", "a", "t", "i", "o", "n">>

\* from_str without the trim: a token with a space around it matches nothing.
from_str_untrimmed(s) ==
    LET t == lowercase(s)
    IN  IF t = TextCreation THEN Ok("Creation")
        ELSE IF t = TextExpiration THEN Ok("Expiration")
        ELSE IF t = TextChecksum THEN Ok("Checksum")
        ELSE IF t = TextTermination THEN Ok("Termination")
        ELSE IF t = TextConcatenation THEN Ok("Concatenation")
        ELSE Err(ParsingError)

from_str(s) ==
    LET t == lowercase(trim(s))
    IN  IF t = TextCreation THEN Ok("Creation")
        ELSE IF t = TextExpiration THEN Ok("Expiration")
        ELSE IF t = TextChecksum THEN Ok("Checksum")
        ELSE IF t = TextTermination THEN Ok("Termination")
        ELSE IF t = TextConcatenation THEN Ok("Concatenation")
        ELSE Err(ParsingError)

\* .map(str::parse).filter(Result::is_ok).map(Result::unwrap)
RECURSIVE parse_extensions(_)
parse_extensions(tokens) ==
    IF tokens = <<>> THEN <<>>
    ELSE (IF from_str(tokens[1]).ok THEN <<from_str(tokens[1]).val>> ELSE <<>>)
         \o parse_extensions(Tail(tokens))

\* get_server_info with `?` on the parse of tus-max-size: a value that is no
\* integer becomes an error.
get_server_info_strict_max_size(hr) ==
    IF ~hr.ok THEN Err(hr.err)
    ELSE LET resp == hr.val
             version == get_by_key(resp.headers, "tus-version")
             ext == get_by_key(resp.headers, "tus-extension")
             max_size == get_by_key(resp.headers, "tus-max-size")
         IN  IF resp.status_code \notin {200, 204}
             THEN Err(UnexpectedStatusCode(resp.status_code))
             ELSE IF ~version.some THEN Panic
             ELSE IF max_size.some /\ ~parse_usize(max_size.val).ok THEN Err(ParsingError)
             ELSE Ok([supported_versions |-> split(version.val, ","),
                      extensions |-> IF ext.some
                                     THEN parse_extensions(split(ext.val, ","))
                                     ELSE <<>>,
                      max_upload_size |-> IF max_size.some
                                          THEN Some(parse_usize(max_size.val).val)
                                          ELSE None])

\* get_server_info that reports a missing tus-version as an error value.
get_server_info_missing_header(hr) ==
    IF ~hr.ok THEN Err(hr.err)
    ELSE LET resp == hr.val
             version == get_by_key(resp.headers, "tus-version")
             ext == get_by_key(resp.headers, "tus-extension")
             max_size == get_by_key(resp.headers, "tus-max-size")
         IN  IF resp.status_code \notin {200, 204}
             THEN Err(UnexpectedStatusCode(resp.status_code))
             ELSE IF ~version.some THEN Err(MissingHeader("tus-version"))
             ELSE Ok([supported_versions |-> split(version.val, ","),
                      extensions |-> IF ext.some
                                     THEN parse_extensions(split(ext.val, ","))
                                     ELSE <<>>,
                      max_upload_size |-> IF max_size.some /\ parse_usize(max_size.val).ok
                                          THEN Some(parse_usize(max_size.val).val)
                                          ELSE None])

get_server_info(hr) ==
    IF ~hr.ok THEN Err(hr.err)
    ELSE LET resp == hr.val
             version == get_by_key(resp.headers, "tus-version")
             ext == get_by_key(resp.headers, "tus-extension")
             max_size == get_by_key(resp.headers, "tus-max-size")
         IN  IF resp.status_code \notin {200, 204}
             THEN Err(UnexpectedStatusCode(resp.status_code))
             ELSE IF ~version.some THEN Panic
             ELSE Ok([supported_versions |-> split(version.val, ","),
                      extensions |-> IF ext.some
                                     THEN parse_extensions(split(ext.val, ","))
                                     ELSE <<>>,
                      max_upload_size |-> IF max_size.some /\ parse_usize(max_size.val).ok
                                          THEN Some(parse_usize(max_size.val).val)
                                          ELSE None])

----------------------------------------------------------------------------
(* The handler's answers.  The client is built either with a tus server,   *)
(* which keeps the bytes it accepted and answers by the protocol unless    *)
(* the transport fails, or with an arbitrary handler, which answers        *)
(* anything from the sets below.                                           *)

Opt(S) == {None} \cup {Some(v) : v \in S}

Hdr(name, opt) == IF opt.some THEN name :> opt.val ELSE NoHeaders

Resp(status_code, headers) == Ok([status_code |-> status_code, headers |-> headers])

Statuses == {200, 201, 204, 301, 400, 404, 409, 410, 413, 499, 500}

IntTexts == {to_string(n) : n \in 0..(MaxLen + 1)} \cup {<<"x">>}

\* Not base64; base64 of the byte 255 (not UTF-8); base64 of "k:v;j"; base64
\* of "a;a::".
MetadataTexts ==
    {<<"!", "!", "!", "!">>, <<"/", "w", "=", "=">>,
     <<"a", "z", "p", "2", "O", "2", "o", "=">>, <<"Y", "T", "t", "h", "O", "j", "o", "=">>}

\* An upload-length that is no integer, equals the file's length or differs.
LengthTexts == {<<"x">>, to_string(0), to_string(file_len), to_string(file_len + 1)}

HeadAnswers ==
    {Resp(s, Hdr("upload-offset", o) @@ Hdr("upload-length", l)
             @@ Hdr("upload-metadata", m)) :
        s \in Statuses, o \in Opt(IntTexts), l \in Opt(LengthTexts),
        m \in Opt(MetadataTexts)}

PatchAnswers ==
    {Resp(s, Hdr("upload-offset", o)) : s \in Statuses, o \in Opt(IntTexts)}

PostAnswers ==
    {Resp(s, Hdr("location", l)) : s \in Statuses, l \in Opt({"", "/r/42"})}

DeleteAnswers == {Resp(s, NoHeaders) : s \in Statuses}

OptionsAnswers ==
    {Resp(s, Hdr("tus-version", v) @@ Hdr("tus-extension", e) @@ Hdr("tus-max-size", m)) :
        s \in Statuses, v \in Opt({<<"1", ".", "0", ".", "0", ",", "0", ".", "2", ".", "2">>}),
        e \in Opt({<<"c", "r", "e", "a", "t", "i", "o", "n", ",", " ", "b", "o", "g", "u", "s", ",", " ", "t", "e", "r", "m", "i", "n", "a", "t", "i", "o", "n">>, <<"C", "h", "e", "c", "k", "s", "u", "m", ",", "C", "O", "N", "C", "A", "T", "E", "N", "A", "T", "I", "O", "N", ",", "e", "x", "p", "i", "r", "a", "t", "i", "o", "n", " ">>}),
        m \in Opt({<<"x">>, to_string(MaxLen)})}

\* The tus server's answer to HEAD: the offset it holds, with or without the
\* length.
ServerHeadAnswers ==
    {Resp(200, ("Upload-Offset" :> to_string(Len(stored))) @@ Hdr("Upload-Length", l)) :
        l \in Opt({to_string(file_len)})}

\* The tus server on PATCH: a chunk at the offset it holds is appended and
\* acknowledged with the new offset; any other offset is a conflict.
ServerAccepts(req) ==
    /\ req.body.some
    /\ parse_usize(req.headers["upload-offset"]).ok
    /\ parse_usize(req.headers["upload-offset"]).val = Len(stored)

ServerStored(req) == IF ServerAccepts(req) THEN stored \o req.body.val ELSE stored

ServerPatchAnswer(req) ==
    IF ServerAccepts(req)
    THEN Resp(204, "Upload-Offset" :> to_string(Len(ServerStored(req))))
    ELSE Resp(409, NoHeaders)

HandlerFailure == Err(HttpHandlerError)

----------------------------------------------------------------------------
(* The state after construction: Client::new or Client::with_method_override *)

Init ==
    /\ use_method_override \in BOOLEAN
    /\ handler \in {"server", "arbitrary"}
    /\ file_len \in 0..MaxLen
    /\ stored = <<>>
    /\ calls = 0
    /\ prev = <<"none", FALSE>>
    /\ op = "none"
    /\ pc = "idle"
    /\ chunk_size = 0
    /\ inspected = None
    /\ progress = 0
    /\ reader = BufSeek(0)
    /\ request = NoRequest
    /\ response = NoResponse
    /\ log = <<>>
    /\ sent = 0
    /\ result = NoResult
    /\ uploads = <<>>

----------------------------------------------------------------------------
(* The caller starts an operation: the operation's code up to its first    *)
(* handle_request.  An arbitrary handler keeps no state, so only the tus   *)
(* server is called again.                                                 *)

MayCall ==
    /\ pc \in {"idle", "done"}
    /\ calls = 0 \/ (handler = "server" /\ calls < MaxCalls)

StartCall(o, at, c, req) ==
    /\ MayCall
    /\ calls' = calls + 1
    /\ prev' = <<op, result.ok>>
    /\ op' = o
    /\ pc' = at
    /\ chunk_size' = c
    /\ request' = req
    /\ sent' = 1
    /\ response' = NoResponse
    /\ result' = NoResult
    /\ inspected' = None
    /\ progress' = 0
    /\ reader' = BufSeek(0)
    /\ log' = <<>>
    /\ UNCHANGED <<use_method_override, handler, file_len, stored, uploads>>

CallGetInfo ==
    StartCall("get_info", "head", 0, create_request("Head", None, default_headers))

CallUpload ==
    \E c \in 1..MaxChunk :
        StartCall("upload", "head", c, create_request("Head", None, default_headers))

CallCreate ==
    \E metadata \in {<<>>, <<[key |-> <<"k">>, value |-> <<118>>]>>} :
        StartCall("create", "post", 0,
                  create_request("Post", None, create_headers(metadata)))

CallDelete ==
    StartCall("delete", "delete", 0, create_request("Delete", None, default_headers))

CallGetServerInfo ==
    StartCall("get_server_info", "options", 0, create_request("Options", None, NoHeaders))

----------------------------------------------------------------------------
(* The operation goes on with the handler's answer hr, up to its next      *)
(* handle_request or to its return.                                        *)

Finish(r) ==
    /\ pc' = IF IsPanic(r) THEN "panicked" ELSE "done"
    /\ result' = r
    /\ request' = NoRequest

\* Lines 161-172: read the next chunk and send it, or fail on an empty read.
EnterLoop(rd, prog, lg) ==
    LET rr == BufRead(rd, chunk_size)
        req == create_request("Patch", Some(rr.data), create_upload_headers(prog))
    IN  /\ reader' = rr.reader
        /\ progress' = prog
        /\ IF rr.data = <<>>
           THEN /\ Finish(Err(FileReadError))
                /\ log' = lg
                /\ sent' = sent
           ELSE /\ pc' = "patch"
                /\ request' = req
                /\ result' = result
                /\ sent' = sent + 1
                /\ log' = Append(lg, [offset |-> req.headers["upload-offset"],
                                      body   |-> rr.data,
                                      status |-> 0,
                                      ack    |-> None])

\* The offset a PATCH answer acknowledges, if it carries one.
AckOf(hr) ==
    IF hr.ok /\ get_by_key(hr.val.headers, "upload-offset").some
             /\ parse_usize(get_by_key(hr.val.headers, "upload-offset").val).ok
    THEN Some(parse_usize(get_by_key(hr.val.headers, "upload-offset").val).val)
    ELSE None

Answered(lg, hr) ==
    [lg EXCEPT ![Len(lg)] = [@ EXCEPT !.status = IF hr.ok THEN hr.val.status_code ELSE 0,
                                      !.ack = AckOf(hr)]]

Deliver(hr) ==
    /\ response' = hr
    /\ UNCHANGED <<use_method_override, handler, file_len, calls, prev, op, chunk_size,
                   uploads>>
    /\ CASE pc = "head" /\ op = "get_info" ->
                /\ Finish(get_info(hr))
                /\ UNCHANGED <<inspected, progress, reader, log, sent>>
         [] pc = "head" /\ op = "upload" ->
                LET r == get_info(hr)
                    b == before_loop(r)
                IN  /\ inspected' = IF r.ok THEN Some([bytes_uploaded |-> r.val.bytes_uploaded,
                                                       total_size     |-> r.val.total_size])
                                     ELSE None
                    /\ IF b.return
                       THEN /\ Finish(b.result)
                            /\ UNCHANGED <<progress, reader, log, sent>>
                       ELSE EnterLoop(BufSeek(b.seek), b.seek, <<>>)
         [] pc = "patch" ->
                LET a == after_patch(hr)
                IN  /\ inspected' = inspected
                    /\ IF a.return
                       THEN /\ Finish(a.result)
                            /\ progress' = IF a.result.ok THEN a.progress ELSE progress
                            /\ log' = Answered(log, hr)
                            /\ UNCHANGED <<reader, sent>>
                       ELSE EnterLoop(reader, a.progress, Answered(log, hr))
         [] pc = "post" ->
                /\ Finish(create_with_metadata(hr))
                /\ UNCHANGED <<inspected, progress, reader, log, sent>>
         [] pc = "delete" ->
                /\ Finish(delete(hr))
                /\ UNCHANGED <<inspected, progress, reader, log, sent>>
         [] pc = "options" ->
                /\ Finish(get_server_info(hr))
                /\ UNCHANGED <<inspected, progress, reader, log, sent>>

InFlight == pc \in {"head", "patch", "post", "delete", "options"}

----------------------------------------------------------------------------
(* handle_request: one action per way the handler answers *)

\* The transport fails before the request takes effect.
HandlerFails ==
    /\ InFlight
    /\ stored' = stored
    /\ Deliver(HandlerFailure)

ServerHead ==
    /\ handler = "server" /\ pc = "head"
    /\ stored' = stored
    /\ \E hr \in ServerHeadAnswers : Deliver(hr)

ServerPatch ==
    /\ handler = "server" /\ pc = "patch"
    /\ stored' = ServerStored(request)
    /\ Deliver(ServerPatchAnswer(request))

\* The server takes the chunk and the answer is lost on the way back.
ServerPatchAnswerLost ==
    /\ handler = "server" /\ pc = "patch"
    /\ stored' = ServerStored(request)
    /\ Deliver(HandlerFailure)

ServerPost ==
    /\ handler = "server" /\ pc = "post"
    /\ stored' = stored
    /\ Deliver(Resp(201, "Location" :> "/r/42"))

ServerDelete ==
    /\ handler = "server" /\ pc = "delete"
    /\ stored' = stored
    /\ Deliver(Resp(204, NoHeaders))

ServerOptions ==
    /\ handler = "server" /\ pc = "options"
    /\ stored' = stored
    /\ Deliver(Resp(204, ("tus-version" :> <<"1", ".", "0", ".", "0">>)
                         @@ ("tus-extension" :> TextCreation)))

ArbitraryHead ==
    /\ handler = "arbitrary" /\ pc = "head"
    /\ stored' = stored
    /\ \E hr \in HeadAnswers : Deliver(hr)

ArbitraryPatch ==
    /\ handler = "arbitrary" /\ pc = "patch"
    /\ stored' = stored
    /\ \E hr \in PatchAnswers : Deliver(hr)

ArbitraryPost ==
    /\ handler = "arbitrary" /\ pc = "post"
    /\ stored' = stored
    /\ \E hr \in PostAnswers : Deliver(hr)

ArbitraryDelete ==
    /\ handler = "arbitrary" /\ pc = "delete"
    /\ stored' = stored
    /\ \E hr \in DeleteAnswers : Deliver(hr)

ArbitraryOptions ==
    /\ handler = "arbitrary" /\ pc = "options"
    /\ stored' = stored
    /\ \E hr \in OptionsAnswers : Deliver(hr)

Next ==
    \/ CallGetInfo
    \/ CallUpload
    \/ CallCreate
    \/ CallDelete
    \/ CallGetServerInfo
    \/ HandlerFails
    \/ ServerHead
    \/ ServerPatch
    \/ ServerPatchAnswerLost
    \/ ServerPost
    \/ ServerDelete
    \/ ServerOptions
    \/ ArbitraryHead
    \/ ArbitraryPatch
    \/ ArbitraryPost
    \/ ArbitraryDelete
    \/ ArbitraryOptions

Spec == Init /\ [][Next]_vars

----------------------------------------------------------------------------
(* Notions the properties below share *)

Ceil(a, b) == (a + b - 1) \div b

ErrIs(r, e) == ~r.ok /\ r.err = e

Last(lg) == lg[Len(lg)]

\* A text that is a decimal integer.
IsInteger(text) == text # <<>> /\ \A i \in 1..Len(text) : IsDigit(text[i])

HasHeader(hr, name) == \E k \in DOMAIN hr.val.headers : to_lowercase(k) = name

HeaderOf(hr, name) ==
    hr.val.headers[CHOOSE k \in DOMAIN hr.val.headers : to_lowercase(k) = name]

\* The offset and the total size get_info returned to the running upload.
InspectedOffset == inspected.val.bytes_uploaded
InspectedTotal == inspected.val.total_size

\* The inspected total size is absent or is the file's length.
TotalMatches == ~InspectedTotal.some \/ InspectedTotal.val = file_len

\* Every PATCH answered so far was answered 204 with offset + body length.
Cooperative ==
    \A k \in 1..Len(log) :
        (k < Len(log) \/ pc # "patch") =>
            /\ log[k].status = 204
            /\ log[k].ack.some
            /\ log[k].ack.val = parse_usize(log[k].offset).val + Len(log[k].body)

----------------------------------------------------------------------------
\* C1: resume correctness.  When get_info reports an offset o <= file_len
\* (and a total size that is absent or file_len) and every PATCH is answered
\* 204 with upload-offset = request offset + body length, the k-th PATCH
\* carries min(c, L - o - (k-1)c) bytes with upload-offset o + (k-1)c, the
\* call issues exactly ceil((L - o) / c) of them, the last acknowledged
\* offset is L, and for o < L the call returns success.
C1_ResumeCorrectness ==
    (/\ op = "upload" /\ inspected.some
     /\ InspectedOffset <= file_len /\ TotalMatches /\ Cooperative)
    => LET o == InspectedOffset
           c == chunk_size
       IN  /\ \A k \in 1..Len(log) :
                 /\ log[k].offset = to_string(o + (k - 1) * c)
                 /\ Len(log[k].body) = Min(c, file_len - o - (k - 1) * c)
           /\ pc = "done" =>
                 /\ Len(log) = Ceil(file_len - o, c)
                 /\ log # <<>> => Last(log).ack.val = file_len
                 /\ o < file_len => result.ok

\* C2: idempotent re-entry.  When the inspect exchange reports an offset
\* equal to the file's length, upload sends no PATCH and returns success.
C2_IdempotentReentry ==
    (/\ op = "upload" /\ pc = "done" /\ inspected.some
     /\ InspectedOffset = file_len /\ TotalMatches)
    => (log = <<>> /\ result.ok)

\* C3: resumability.  An upload call made after a failed one, against a
\* server that holds some bytes and answers by the protocol, sends its first
\* PATCH with the offset its own HEAD reported and the source bytes from
\* there on, returns success, and leaves the server holding the source.
C3_Resumability ==
    (/\ handler = "server" /\ calls >= 2 /\ op = "upload"
     /\ prev = <<"upload", FALSE>>
     /\ inspected.some /\ InspectedOffset > 0)
    => /\ log # <<>> =>
            /\ log[1].offset = to_string(InspectedOffset)
            /\ log[1].body = SubSeq(Source, InspectedOffset + 1,
                                    InspectedOffset + Len(log[1].body))
       /\ (pc = "done" /\ ~ErrIs(result, HttpHandlerError)) =>
            (result.ok /\ stored = Source)

\* C4: size mismatch short-circuits.  When get_info reports a total size
\* that differs from the file's length, upload has returned UnequalSizeError
\* and the HEAD is the only request it sent: no PATCH, whatever the reported
\* offset and the chunk size.
C4_SizeMismatch ==
    (/\ op = "upload" /\ inspected.some
     /\ InspectedTotal.some /\ InspectedTotal.val # file_len)
    => /\ pc = "done"
       /\ ErrIs(result, UnequalSizeError)
       /\ sent = 1
       /\ log = <<>>
       /\ request = NoRequest

C4_Witness ==
    /\ op = "upload" /\ pc = "done" /\ inspected.some
    /\ InspectedTotal.some /\ InspectedTotal.val # file_len
    /\ InspectedOffset < file_len /\ chunk_size > 1
    /\ ErrIs(result, UnequalSizeError)

\* C5: get_info fails with NotFoundError for every answer whose status has
\* first digit 4, and for every answer without an upload-offset header,
\* whatever the other headers are; it has no other outcome.
C5_NotFound ==
    (/\ op = "get_info" /\ pc \in {"done", "panicked"} /\ response.ok
     /\ \/ response.val.status_code \div 100 = 4
        \/ ~HasHeader(response, "upload-offset"))
    => (pc = "done" /\ ErrIs(result, NotFoundError))

----------------------------------------------------------------------------
(* An answer is a failure of the exchange when the handler failed, or when *)
(* it is one the operation maps to an error: by its status, or by a        *)
(* required header that is missing or is no integer.                       *)

FailedAnswer(at, hr) ==
    \/ ~hr.ok
    \/ /\ at = "head"
       /\ \/ hr.val.status_code \div 100 = 4
          \/ ~HasHeader(hr, "upload-offset")
          \/ ~IsInteger(HeaderOf(hr, "upload-offset"))
    \/ /\ at = "patch"
       /\ \/ hr.val.status_code # 204
          \/ ~HasHeader(hr, "upload-offset")
          \/ ~IsInteger(HeaderOf(hr, "upload-offset"))
    \/ /\ at = "post"
       /\ hr.val.status_code # 201 \/ ~HasHeader(hr, "location")
    \/ at = "delete" /\ hr.val.status_code # 204
    \/ at = "options" /\ hr.val.status_code \notin {200, 204}

\* C6: no internal retry.  In every operation, once the handler fails or
\* answers with a response that maps to an error, the operation sends no
\* further request; when it returns, it returns an error, and a failure of
\* the handler is returned as it is.
C6_NoRetry ==
    [][(InFlight /\ FailedAnswer(pc, response'))
        => /\ sent' = sent
           /\ request' = NoRequest
           /\ pc' \in {"done", "panicked"}
           /\ pc' = "done" => IsErr(result')
           /\ ~response'.ok => (pc' = "done" /\ ErrIs(result', response'.err))]_vars

C6_Witness ==
    /\ op = "upload" /\ pc = "done" /\ Len(log) >= 2
    /\ ~response.ok /\ ErrIs(result, HttpHandlerError)
    /\ sent = Len(log) + 1

\* C7: transfer status mapping.  For every PATCH answer inside upload: 409
\* yields WrongUploadOffsetError, 404 NotFoundError, any other status but 204
\* UnexpectedStatusCode with that code, 204 without upload-offset
\* MissingHeader("upload-offset"), 204 with an upload-offset that is no
\* integer ParsingError; only after 204 with an integer upload-offset does
\* the upload send another PATCH or return success.
C7_TransferStatus ==
    [][(pc = "patch" /\ response'.ok)
        => LET st == response'.val.status_code
               has == HasHeader(response', "upload-offset")
               Returns(e) == pc' = "done" /\ ErrIs(result', e)
           IN  /\ st = 409 => Returns(WrongUploadOffsetError)
               /\ st = 404 => Returns(NotFoundError)
               /\ st \notin {204, 404, 409} => Returns(UnexpectedStatusCode(st))
               /\ (st = 204 /\ ~has) => Returns(MissingHeader("upload-offset"))
               /\ (st = 204 /\ has /\ ~IsInteger(HeaderOf(response', "upload-offset")))
                     => Returns(ParsingError)
               /\ (pc' = "patch" \/ result'.ok)
                     => (st = 204 /\ has /\ IsInteger(HeaderOf(response', "upload-offset")))]_vars

C7_Witness ==
    /\ op = "upload" /\ pc = "done" /\ Len(log) >= 2
    /\ response.ok /\ response.val.status_code = 409
    /\ ErrIs(result, WrongUploadOffsetError)

\* C8: create_with_metadata sends exactly one request, a POST, and maps its
\* answer: 413 yields FileTooLarge, any other status but 201
\* UnexpectedStatusCode with that code, 201 without location
\* MissingHeader("location"), 201 with location returns its value unchanged.
C8_Create ==
    op = "create"
    => /\ sent = 1
       /\ pc = "post" => request.method = "Post"
       /\ (pc = "done" /\ response.ok) =>
            LET st == response.val.status_code
            IN  /\ st = 413 => ErrIs(result, FileTooLarge)
                /\ st \notin {201, 413} => ErrIs(result, UnexpectedStatusCode(st))
                /\ (st = 201 /\ ~HasHeader(response, "location"))
                      => ErrIs(result, MissingHeader("location"))
                /\ (st = 201 /\ HasHeader(response, "location"))
                      => (result.ok /\ result.val = HeaderOf(response, "location"))

C8_Witness ==
    /\ op = "create" /\ pc = "done" /\ response.ok
    /\ response.val.status_code = 201
    /\ result.ok /\ result.val = "/r/42"

\* C9: every upload URL that create returns successfully is a non-empty
\* string, for every 201 answer.
C9_NonEmptyUrl ==
    (op = "create" /\ pc = "done" /\ result.ok) => result.val # ""

\* C10: delete sends exactly one request and returns success exactly when the
\* answer's status is 204; any other status yields UnexpectedStatusCode with
\* that code.
C10_Delete ==
    op = "delete"
    => /\ sent = 1
       /\ (pc = "done" /\ response.ok) =>
            LET st == response.val.status_code
            IN  /\ result.ok <=> st = 204
                /\ st # 204 => ErrIs(result, UnexpectedStatusCode(st))

C10_Witness ==
    /\ op = "delete" /\ pc = "done" /\ response.ok
    /\ response.val.status_code = 200
    /\ ErrIs(result, UnexpectedStatusCode(200))

\* C11: get_server_info accepts exactly the statuses 200 and 204 and fails
\* with UnexpectedStatusCode(code) for every other status; on an accepted
\* answer that carries tus-version, a missing tus-extension yields no
\* extensions, and a tus-max-size that is missing or no integer yields
\* max_upload_size = None, never an error.
C11_ServerInfo ==
    (op = "get_server_info" /\ pc \in {"done", "panicked"} /\ response.ok)
    => LET st == response.val.status_code
       IN  /\ st \notin {200, 204} => (pc = "done" /\ ErrIs(result, UnexpectedStatusCode(st)))
           /\ result.ok => st \in {200, 204}
           /\ (st \in {200, 204} /\ HasHeader(response, "tus-version")) =>
                 /\ pc = "done" /\ result.ok
                 /\ ~HasHeader(response, "tus-extension") => result.val.extensions = <<>>
                 /\ (\/ ~HasHeader(response, "tus-max-size")
                     \/ ~IsInteger(HeaderOf(response, "tus-max-size")))
                       => result.val.max_upload_size = None
                 /\ (/\ HasHeader(response, "tus-max-size")
                     /\ IsInteger(HeaderOf(response, "tus-max-size")))
                       => result.val.max_upload_size.some

C11_Witness ==
    /\ op = "get_server_info" /\ pc = "done" /\ response.ok
    /\ response.val.status_code = 204
    /\ HasHeader(response, "tus-version")
    /\ ~HasHeader(response, "tus-extension")
    /\ HasHeader(response, "tus-max-size") /\ ~IsInteger(HeaderOf(response, "tus-max-size"))
    /\ result.ok /\ result.val.extensions = <<>> /\ result.val.max_upload_size = None

----------------------------------------------------------------------------
(* The request a client built with Client::new hands to the handler at the  *)
(* running operation's current exchange, and the verb that exchange means.  *)

LogicalMethod ==
    CASE pc = "head" -> "Head"
      [] pc = "patch" -> "Patch"
      [] pc = "post" -> "Post"
      [] pc = "delete" -> "Delete"
      [] pc = "options" -> "Options"

\* The verb's name in lower case.
VerbText(method) ==
    CASE method = "Head" -> <<"h", "e", "a", "d">>
      [] method = "Patch" -> <<"p", "a", "t", "c", "h">>
      [] method = "Options" -> <<"o", "p", "t", "i", "o", "n", "s">>
      [] method = "Post" -> <<"p", "o", "s", "t">>
      [] method = "Delete" -> <<"d", "e", "l", "e", "t", "e">>

PlainHeaders ==
    CASE pc = "head" -> {default_headers}
      [] pc = "patch" -> {create_upload_headers(progress)}
      [] pc = "post" -> {create_headers(<<>>),
                         create_headers(<<[key |-> <<"k">>, value |-> <<118>>]>>)}
      [] pc = "delete" -> {default_headers}
      [] pc = "options" -> {NoHeaders}

PlainBody == IF pc = "patch" THEN Some(Last(log).body) ELSE None

\* The headers without x-http-method-override.
WithoutOverride(headers) ==
    [k \in DOMAIN headers \ {"x-http-method-override"} |-> headers[k]]

\* C12: the method-override mode is fixed at construction: no step changes
\* it.  A client built with with_method_override sends every request, the
\* logical PATCH and DELETE among them, as a POST whose
\* x-http-method-override names the intended verb (ignoring case: the value
\* is the variant's name, "Patch", "Delete"), with the URL, the body and all
\* other headers of the request a client built with new sends; a client
\* built with new sends the logical verb and no x-http-method-override.
C12_MethodOverride ==
    [][/\ use_method_override' = use_method_override
       /\ InFlight' =>
            /\ request'.url = "/something"
            /\ request'.body = PlainBody'
            /\ WithoutOverride(request'.headers) \in PlainHeaders'
            /\ IF use_method_override'
               THEN /\ request'.method = "Post"
                    /\ "x-http-method-override" \in DOMAIN request'.headers
                    /\ lowercase(request'.headers["x-http-method-override"])
                          = VerbText(LogicalMethod')
               ELSE /\ request'.method = LogicalMethod'
                    /\ "x-http-method-override" \notin DOMAIN request'.headers]_vars

C12_Witness ==
    /\ use_method_override /\ op = "upload" /\ pc = "patch" /\ Len(log) >= 2
    /\ request.method = "Post"
    /\ request.headers["x-http-method-override"] = <<"P", "a", "t", "c", "h">>
    /\ request.body = Some(Last(log).body)

\* C13: every request the client sends, in every operation and in both
\* method-override modes, carries the header tus-resumable with the value
\* "1.0.0".
C13_TusResumable ==
    InFlight => /\ "tus-resumable" \in DOMAIN request.headers
                /\ request.headers["tus-resumable"] = "1.0.0"

\* C14: get_info returns an UploadInfo only for the statuses 200 and 204; an
\* answer whose status is neither of these nor 4xx and that carries a
\* well-formed upload-offset fails with UnexpectedStatusCode carrying the
\* status.
C14_InspectStatus ==
    (op = "get_info" /\ pc = "done" /\ response.ok)
    => LET st == response.val.status_code
       IN  /\ result.ok => st \in {200, 204}
           /\ (/\ st \notin {200, 204} /\ st \div 100 # 4
               /\ HasHeader(response, "upload-offset")
               /\ IsInteger(HeaderOf(response, "upload-offset")))
                 => ErrIs(result, UnexpectedStatusCode(st))

\* The upload-metadata value of the answer is not base64, or its decoded
\* bytes are not UTF-8.
MalformedMetadata(hr) ==
    /\ HasHeader(hr, "upload-metadata")
    /\ LET decoded == base64_decode(HeaderOf(hr, "upload-metadata"))
       IN  ~decoded.some \/ ~valid_utf8(decoded.val)

\* C15: when an inspect answer that is not 4xx carries upload-offset and an
\* upload-metadata that is not base64 or does not decode to UTF-8, get_info
\* returns a DecodeError: it neither returns an UploadInfo nor panics.
C15_DecodeError ==
    (/\ op = "get_info" /\ pc \in {"done", "panicked"} /\ response.ok
     /\ response.val.status_code \div 100 # 4
     /\ HasHeader(response, "upload-offset")
     /\ IsInteger(HeaderOf(response, "upload-offset"))
     /\ MalformedMetadata(response))
    => (pc = "done" /\ ~result.ok /\ result.err.kind = "DecodeError")

----------------------------------------------------------------------------
(* The extension a token names: the token without the spaces around it,    *)
(* letter case ignored, is the extension's name.                           *)

ExtensionNames ==
    [Creation |-> TextCreation, Expiration |-> TextExpiration, Checksum |-> TextChecksum,
     Termination |-> TextTermination, Concatenation |-> TextConcatenation]

Names(token, e) ==
    \E a \in 1..Len(token) : \E b \in a..Len(token) :
        /\ \A i \in 1..(a - 1) : token[i] = " "
        /\ \A i \in (b + 1)..Len(token) : token[i] = " "
        /\ lowercase(SubSeq(token, a, b)) = ExtensionNames[e]

IsKnown(token) == \E e \in DOMAIN ExtensionNames : Names(token, e)

ExpectedExtensions(text) ==
    LET kept == SelectSeq(split(text, ","), IsKnown)
    IN  [i \in 1..Len(kept) |-> CHOOSE e \in DOMAIN ExtensionNames : Names(kept[i], e)]

\* C16: extension parsing is lenient.  For every tus-extension value of an
\* accepted answer, get_server_info succeeds and returns, in order of
\* appearance, exactly the comma-separated tokens that name one of creation,
\* expiration, checksum, termination, concatenation once the spaces around
\* them are removed and letter case is ignored; other tokens are dropped.
C16_LenientExtensions ==
    (/\ op = "get_server_info" /\ pc \in {"done", "panicked"} /\ response.ok
     /\ response.val.status_code \in {200, 204}
     /\ HasHeader(response, "tus-version")
     /\ HasHeader(response, "tus-extension"))
    => /\ pc = "done" /\ result.ok
       /\ result.val.extensions = ExpectedExtensions(HeaderOf(response, "tus-extension"))

C16_Witness ==
    /\ op = "get_server_info" /\ pc = "done" /\ response.ok /\ result.ok
    /\ HasHeader(response, "tus-extension")
    /\ HeaderOf(response, "tus-extension")
          = TextCreation \o <<",", " ", "b", "o", "g", "u", "s", ",", " ">> \o TextTermination
    /\ result.val.extensions = <<"Creation", "Termination">>

----------------------------------------------------------------------------
(* The pieces of a text between its ';', and the entry a piece stands for  *)

Cuts(t) == {0} \cup {i \in 1..Len(t) : t[i] = Semicolon} \cup {Len(t) + 1}

\* Where the pieces start: right after each of these positions.
Starts(t) == Cuts(t) \ {Len(t) + 1}

PieceFrom(t, a) ==
    LET b == CHOOSE x \in Cuts(t) : x > a /\ \A y \in Cuts(t) : y > a => x <= y
    IN  SubSeq(t, a + 1, b - 1)

HasColon(p) == \E i \in 1..Len(p) : p[i] = Colon

ColonAt(p) == CHOOSE i \in 1..Len(p) : p[i] = Colon /\ \A j \in 1..(i - 1) : p[j] # Colon

EntryKey(p) == IF HasColon(p) THEN SubSeq(p, 1, ColonAt(p) - 1) ELSE p

EntryValue(p) == IF HasColon(p) THEN SubSeq(p, ColonAt(p) + 1, Len(p)) ELSE <<>>

\* get_info has returned the metadata of an answer whose upload-metadata
\* decodes to text.
MetadataDecoded ==
    /\ op = "get_info" /\ pc = "done" /\ result.ok /\ response.ok
    /\ HasHeader(response, "upload-metadata")
    /\ ~MalformedMetadata(response)

DecodedText == base64_decode(HeaderOf(response, "upload-metadata")).val

\* C17, as claimed: the metadata get_info returns has one entry per
\* ';'-separated piece of the decoded text, the key being the text before the
\* piece's first ':' and the value everything after it; a piece without ':'
\* maps its whole text to the empty string.
C17_EntryPerPiece ==
    MetadataDecoded
    => /\ result.val.metadata.some
       /\ LET t == DecodedText
              m == result.val.metadata.val
          IN  /\ DOMAIN m = {EntryKey(PieceFrom(t, a)) : a \in Starts(t)}
              /\ Cardinality(DOMAIN m) = Cardinality(Starts(t))
              /\ \A a \in Starts(t) :
                    m[EntryKey(PieceFrom(t, a))] = EntryValue(PieceFrom(t, a))

\* C17, amended: the metadata has one entry per distinct key among the
\* pieces, with the value of the last piece that has this key.
C17_LastPieceWins ==
    MetadataDecoded
    => /\ result.val.metadata.some
       /\ LET t == DecodedText
              m == result.val.metadata.val
          IN  /\ DOMAIN m = {EntryKey(PieceFrom(t, a)) : a \in Starts(t)}
              /\ \A a \in Starts(t) :
                    (\A b \in Starts(t) :
                        b > a => EntryKey(PieceFrom(t, b)) # EntryKey(PieceFrom(t, a)))
                    => m[EntryKey(PieceFrom(t, a))] = EntryValue(PieceFrom(t, a))

\* "a;a::" decoded: the key a with the value ":".
C17_Witness ==
    /\ MetadataDecoded
    /\ DecodedText = <<97, 59, 97, 58, 58>>
    /\ DOMAIN result.val.metadata.val = {<<97>>}
    /\ result.val.metadata.val[<<97>>] = <<58>>

\* C18: offset/body consistency.  In every PATCH of an upload call, whatever
\* the server answered before, the body is the source bytes at the positions
\* [o, o + n), o being the request's upload-offset and n the body's length.
C18_OffsetBodyConsistency ==
    op = "upload"
    => \A k \in 1..Len(log) :
          LET o == parse_usize(log[k].offset).val
          IN  log[k].body = SubSeq(Source, o + 1, o + Len(log[k].body))

\* C19: termination.  Whatever the server answers, an upload call sends at
\* most one HEAD and at most ceil((L - o) / c) PATCHes, none when o >= L.
C19_PatchBound ==
    (op = "upload" /\ inspected.some)
    => LET bound == IF InspectedOffset >= file_len THEN 0
                    ELSE Ceil(file_len - InspectedOffset, chunk_size)
       IN  /\ Len(log) <= bound
           /\ sent <= 1 + bound

\* The bytes carried by the PATCHes of the running upload call.
Carried == UNION {{log[k].body[i] : i \in 1..Len(log[k].body)} : k \in 1..Len(log)}

\* Every byte of the source from the inspected offset on was carried.
AllSent == \A i \in (InspectedOffset + 1)..file_len : Source[i] \in Carried

\* C20, as claimed: whenever an upload call returns success, whatever the
\* server answered, every source byte from the inspected offset to the end
\* of the source was carried in the body of some PATCH of that call.
C20_SuccessMeansAllSent ==
    (op = "upload" /\ pc = "done" /\ result.ok) => AllSent

\* No PATCH was acknowledged with more than its offset plus its body length.
NoOverAck ==
    \A k \in 1..Len(log) :
        log[k].ack.some => log[k].ack.val <= parse_usize(log[k].offset).val + Len(log[k].body)

\* C20, amended: whenever an upload call returns success and no PATCH of it
\* was acknowledged with an offset beyond its own offset plus body length,
\* every source byte from the inspected offset to the end was carried.
C20_SuccessWithoutOverAck ==
    (op = "upload" /\ pc = "done" /\ result.ok /\ NoOverAck) => AllSent

C20_Witness ==
    /\ handler = "arbitrary" /\ op = "upload" /\ pc = "done" /\ result.ok
    /\ NoOverAck /\ Len(log) >= 2 /\ InspectedOffset = 1 /\ AllSent

\* C21: every PATCH of an upload call carries a non-empty body of at most
\* chunk_size bytes and the headers tus-resumable = "1.0.0", content-type =
\* "application/offset+octet-stream" and upload-offset, the latter being the
\* offset the server reported last: the inspected offset for the first PATCH,
\* the previous PATCH answer's upload-offset for every later one.
C21_PatchRequest ==
    op = "upload"
    => /\ \A k \in 1..Len(log) :
             /\ log[k].body # <<>>
             /\ Len(log[k].body) <= chunk_size
             /\ IsInteger(log[k].offset)
             /\ k = 1 => DigitsValue(log[k].offset) = InspectedOffset
             /\ k > 1 => /\ log[k - 1].ack.some
                         /\ DigitsValue(log[k].offset) = log[k - 1].ack.val
       /\ pc = "patch" =>
             /\ request.body = Some(Last(log).body)
             /\ "tus-resumable" \in DOMAIN request.headers
             /\ request.headers["tus-resumable"] = "1.0.0"
             /\ "content-type" \in DOMAIN request.headers
             /\ request.headers["content-type"] = "application/offset+octet-stream"
             /\ "upload-offset" \in DOMAIN request.headers
             /\ request.headers["upload-offset"] = Last(log).offset

\* A third PATCH in flight after two answers that did not acknowledge what
\* was sent.
C21_Witness ==
    /\ op = "upload" /\ pc = "patch" /\ Len(log) = 3
    /\ log[1].ack.val = 0 /\ log[2].ack.val = 3
    /\ request.headers["upload-offset"] = <<"3">>

\* C22: exchange ordering within one upload call.  Exactly one HEAD is
\* issued, first, and it has been answered before any PATCH is issued; no
\* PATCH is issued when the HEAD failed or mapped to an error; a further
\* PATCH is issued only at the answer to the one before, which it
\* accepted, so there is never more than the one exchange in flight.
C22_ExchangeOrdering ==
    [][op' = "upload" =>
        /\ pc' = "head" => (sent' = 1 /\ log' = <<>> /\ request'.body = None)
        /\ pc' = "patch" => (sent' = Len(log') + 1 /\ request'.body.some)
        /\ log' # <<>> => (inspected'.some /\ TotalMatches')
        /\ (pc = "head" /\ pc' = "patch") => ~FailedAnswer("head", response')
        /\ (calls' = calls /\ sent' # sent) =>
              /\ InFlight /\ request # NoRequest
              /\ sent' = sent + 1 /\ Len(log') = Len(log) + 1
              /\ pc' = "patch"
              /\ ~FailedAnswer(pc, response')
        /\ (calls' = calls /\ sent' = sent) => (log' = <<>> \/ Len(log') = Len(log))
        /\ \A k \in 1..(Len(log') - 1) : log'[k].status = 204
        /\ ~InFlight' => request' = NoRequest]_vars

C22_Witness ==
    /\ op = "upload" /\ pc = "patch" /\ sent = 4 /\ Len(log) = 3
    /\ log[1].status = 204 /\ log[2].status = 204 /\ log[3].status = 0

\* C23: offset monotonicity.  Within one upload call the upload-offset values
\* of successive PATCHes are strictly increasing and never below the
\* inspected offset, whatever the server answers.
C23_OffsetMonotonicity ==
    (op = "upload" /\ inspected.some)
    => \A k \in 1..Len(log) :
          /\ DigitsValue(log[k].offset) >= InspectedOffset
          /\ k > 1 => DigitsValue(log[k].offset) > DigitsValue(log[k - 1].offset)

\* C24: get_info on an answer that is not 4xx and carries upload-offset: an
\* upload-offset that is no integer fails with ParsingError; otherwise
\* bytes_uploaded is that integer, total_size is the upload-length integer,
\* or None when upload-length is absent or no integer, and metadata is None
\* when upload-metadata is absent.
C24_FieldDecoding ==
    (/\ op = "get_info" /\ pc \in {"done", "panicked"} /\ response.ok
     /\ response.val.status_code \div 100 # 4
     /\ HasHeader(response, "upload-offset"))
    => LET off == HeaderOf(response, "upload-offset")
           has_length == /\ HasHeader(response, "upload-length")
                         /\ IsInteger(HeaderOf(response, "upload-length"))
       IN  /\ pc = "done"
           /\ ~IsInteger(off) => ErrIs(result, ParsingError)
           /\ IsInteger(off) =>
                 /\ result.ok
                 /\ result.val.bytes_uploaded = DigitsValue(off)
                 /\ has_length =>
                       /\ result.val.total_size.some
                       /\ result.val.total_size.val
                             = DigitsValue(HeaderOf(response, "upload-length"))
                 /\ ~has_length => ~result.val.total_size.some
                 /\ ~HasHeader(response, "upload-metadata") => ~result.val.metadata.some

\* C25: get_server_info on a 200 or 204 answer without tus-version returns
\* neither a ServerInfo nor an Error value: the call panics.
C25_MissingVersionPanics ==
    (/\ op = "get_server_info" /\ pc \in {"done", "panicked"} /\ response.ok
     /\ response.val.status_code \in {200, 204}
     /\ ~HasHeader(response, "tus-version"))
    => (pc = "panicked" /\ IsPanic(result) /\ ~result.ok /\ ~IsErr(result))

C25_Witness ==
    /\ op = "get_server_info" /\ pc = "panicked" /\ response.ok
    /\ response.val.status_code = 200
    /\ ~HasHeader(response, "tus-version")
    /\ HasHeader(response, "tus-extension") /\ HasHeader(response, "tus-max-size")
    /\ IsPanic(result)

\* The answer to the inspect exchange is not 4xx and reports an integer
\* offset beyond the file's length, with a total size that is the file's
\* length or none.
ReportsOffsetBeyondLength(hr) ==
    /\ hr.ok
    /\ hr.val.status_code \div 100 # 4
    /\ HasHeader(hr, "upload-offset")
    /\ IsInteger(HeaderOf(hr, "upload-offset"))
    /\ DigitsValue(HeaderOf(hr, "upload-offset")) > file_len
    /\ (HasHeader(hr, "upload-length") /\ IsInteger(HeaderOf(hr, "upload-length")))
          => DigitsValue(HeaderOf(hr, "upload-length")) = file_len

\* C26: bytes_uploaded <= total_size is not enforced locally.  When the
\* inspect exchange reports an offset beyond the file's length (with a total
\* size equal to the file's length, or none), get_info itself succeeds, and
\* the upload call sends no PATCH and ends in an error, never in success.
C26_OffsetBeyondLength ==
    /\ (/\ op = "get_info" /\ pc \in {"done", "panicked"}
        /\ ReportsOffsetBeyondLength(response))
       => (pc = "done" /\ result.ok)
    /\ (/\ op = "upload" /\ pc \in {"done", "panicked"} /\ log = <<>>
        /\ ReportsOffsetBeyondLength(response))
       => (inspected.some /\ pc = "done" /\ IsErr(result) /\ sent = 1)
    /\ (/\ op = "upload" /\ inspected.some
        /\ InspectedOffset > file_len /\ TotalMatches)
       => (pc = "done" /\ IsErr(result) /\ log = <<>> /\ sent = 1)

----------------------------------------------------------------------------
(* Two upload calls of the same file to the same resource, run side by     *)
(* side (two clients, or one client shared by two threads) against the tus *)
(* server.  Each call is Client::upload_with_chunk_size with its own       *)
(* locals; the server's content is shared.                                 *)

Uploads == {1, 2}

IdleUpload ==
    [pc |-> "idle", chunk_size |-> 0, inspected |-> None, progress |-> 0,
     reader |-> BufSeek(0), request |-> NoRequest, result |-> NoResult]

\* Lines 161-172 for the call up: read the next chunk and send it, or fail on
\* an empty read.
UploadEnterLoop(up, rd, prog) ==
    LET rr == BufRead(rd, up.chunk_size)
    IN  IF rr.data = <<>>
        THEN [up EXCEPT !.pc = "done", !.reader = rr.reader, !.progress = prog,
                        !.request = NoRequest, !.result = Err(FileReadError)]
        ELSE [up EXCEPT !.pc = "patch", !.reader = rr.reader, !.progress = prog,
                        !.request = create_request("Patch", Some(rr.data),
                                                   create_upload_headers(prog))]

UploadReturn(up, r) ==
    [up EXCEPT !.pc = IF IsPanic(r) THEN "panicked" ELSE "done",
               !.request = NoRequest, !.result = r]

\* The call up goes on with the handler's answer hr, up to its next
\* handle_request or to its return.
UploadDeliver(up, hr) ==
    IF up.pc = "head"
    THEN LET r == get_info(hr)
             b == before_loop(r)
             seen == [up EXCEPT !.inspected = IF r.ok THEN Some(r.val.bytes_uploaded)
                                              ELSE None]
         IN  IF b.return THEN UploadReturn(seen, b.result)
             ELSE UploadEnterLoop(seen, BufSeek(b.seek), b.seek)
    ELSE LET a == after_patch(hr)
         IN  IF a.return
             THEN UploadReturn([up EXCEPT !.progress = IF a.result.ok THEN a.progress ELSE @],
                               a.result)
             ELSE UploadEnterLoop(up, up.reader, a.progress)

MainIdle ==
    UNCHANGED <<use_method_override, handler, file_len, calls, prev, op, pc, chunk_size,
                inspected, progress, reader, request, response, log, sent, result>>

InitConcurrent ==
    /\ use_method_override \in BOOLEAN
    /\ handler = "server"
    /\ file_len \in 0..MaxLen
    /\ stored = <<>>
    /\ calls = 0
    /\ prev = <<"none", FALSE>>
    /\ op = "none"
    /\ pc = "idle"
    /\ chunk_size = 0
    /\ inspected = None
    /\ progress = 0
    /\ reader = BufSeek(0)
    /\ request = NoRequest
    /\ response = NoResponse
    /\ log = <<>>
    /\ sent = 0
    /\ result = NoResult
    /\ uploads = [u \in Uploads |-> IdleUpload]

UploadCall ==
    \E u \in Uploads : \E c \in 1..MaxChunk :
        /\ uploads[u].pc = "idle"
        /\ uploads' = [uploads EXCEPT ![u] =
                [@ EXCEPT !.pc = "head", !.chunk_size = c,
                          !.request = create_request("Head", None, default_headers)]]
        /\ stored' = stored
        /\ MainIdle

UploadHead ==
    \E u \in Uploads : \E hr \in ServerHeadAnswers :
        /\ uploads[u].pc = "head"
        /\ uploads' = [uploads EXCEPT ![u] = UploadDeliver(@, hr)]
        /\ stored' = stored
        /\ MainIdle

UploadPatch ==
    \E u \in Uploads :
        /\ uploads[u].pc = "patch"
        /\ stored' = ServerStored(uploads[u].request)
        /\ uploads' = [uploads EXCEPT ![u] =
                UploadDeliver(@, ServerPatchAnswer(uploads[u].request))]
        /\ MainIdle

\* The server takes the chunk and the answer is lost on the way back.
UploadPatchAnswerLost ==
    \E u \in Uploads :
        /\ uploads[u].pc = "patch"
        /\ stored' = ServerStored(uploads[u].request)
        /\ uploads' = [uploads EXCEPT ![u] = UploadDeliver(@, HandlerFailure)]
        /\ MainIdle

\* The transport fails before the request takes effect.
UploadHandlerFails ==
    \E u \in Uploads :
        /\ uploads[u].pc \in {"head", "patch"}
        /\ stored' = stored
        /\ uploads' = [uploads EXCEPT ![u] = UploadDeliver(@, HandlerFailure)]
        /\ MainIdle

NextConcurrent ==
    \/ UploadCall
    \/ UploadHead
    \/ UploadPatch
    \/ UploadPatchAnswerLost
    \/ UploadHandlerFails

SpecConcurrent == InitConcurrent /\ [][NextConcurrent]_vars

\* C27: concurrent uploads of the same source.  When two upload calls for
\* the same resource run with arbitrarily interleaved exchanges against a
\* server that accepts a PATCH only at its current offset (409 otherwise) and
\* acknowledges accepted chunks in full, the content the server holds is in
\* every reachable state a prefix of the source: no byte is stored at a
\* wrong position or twice.
C27_StoredIsPrefix ==
    /\ Len(stored) <= file_len
    /\ stored = SubSeq(Source, 1, Len(stored))

\* Both calls inspected at offset 0, the first had a chunk accepted and was
\* then refused, the second completed the upload.
C27_Witness ==
    /\ uploads # <<>>
    /\ uploads[1].pc = "done" /\ uploads[2].pc = "done"
    /\ uploads[1].inspected = Some(0) /\ uploads[1].progress > 0
    /\ ErrIs(uploads[1].result, WrongUploadOffsetError)
    /\ uploads[2].inspected.some /\ uploads[2].inspected.val > 0
    /\ uploads[2].result.ok
    /\ file_len >= 3 /\ stored = Source

====
